---- MODULE Spec2Model ----
(***************************************************************************)
(* The FashionMNIST workshop notebooks as a state machine.                 *)
(*                                                                         *)
(* Two notebooks are modelled: DataInnovationShowcase_ComputerVision.ipynb *)
(* ("showcase") and its near-duplicate src/unnamed/part_000 ("part_000").  *)
(* They share the data loaders, the model class, accuracy_fn and the       *)
(* training/testing cell; the showcase notebook additionally moves the     *)
(* model and every batch to `device`.                                      *)
(*                                                                         *)
(* Numbers that Python computes with true division (`/`) are modelled as   *)
(* exact rationals <<numerator, denominator>> in lowest terms; floating    *)
(* point rounding is not modelled.                                         *)
(***************************************************************************)
EXTENDS Integers, Sequences, FiniteSets, TLC

(***************************************************************************)
(* Program constants                                                       *)
(***************************************************************************)
\* BATCH_SIZE = 32
BATCH_SIZE == 32
\* "a training set of 60,000 examples"
TRAIN_SIZE == 60000
\* "a test set of 10,000 examples"
TEST_SIZE == 10000
\* "a label from 10 classes": len(class_names)
NUM_CLASSES == 10
\* "Each example is a 28x28 grayscale image": image.shape = [1, 28, 28]
IMG_CHANNELS == 1
IMG_SIDE == 28
\* epochs = 3
epochs == 3

(***************************************************************************)
(* Bounds of the model                                                     *)
(***************************************************************************)
\* samples of the scaled-down training set
TrainN == 3
\* samples of the scaled-down test set
TestN == 3
\* batch size of the scaled-down data loaders
BatchN == 2
\* a per-batch loss is one of 0..MaxLoss abstract units
MaxLoss == 1
\* longest label sequence handed to accuracy_fn on its own
MaxLen == 3
\* labels handed to accuracy_fn on its own are 0..MaxLabel
MaxLabel == 2
\* executions of the training cell in a session, after its first
MaxReruns == 1

(***************************************************************************)
(* Exact rationals                                                         *)
(***************************************************************************)
RECURSIVE GCD(_, _)
GCD(a, b) == IF b = 0 THEN a ELSE GCD(b, a % b)

\* n / d in lowest terms (n >= 0, d > 0)
Rat(n, d) == LET g == GCD(n, d) IN <<n \div g, d \div g>>

RatAdd(p, q) == Rat(p[1] * q[2] + q[1] * p[2], p[2] * q[2])

RatMul(p, q) == Rat(p[1] * q[1], p[2] * q[2])

\* p / k for an integer k > 0
RatDivInt(p, k) == Rat(p[1], p[2] * k)

(***************************************************************************)
(* Tensors of labels: one-dimensional tensors are sequences                *)
(***************************************************************************)
RECURSIVE TensorSum(_)
TensorSum(t) == IF t = <<>> THEN 0 ELSE t[1] + TensorSum(Tail(t))

\* torch.eq(a, b): elementwise, a one-element tensor broadcasts, any other
\* pair of different lengths raises.  True counts as 1 in .sum().
TorchEq(a, b) ==
    IF Len(a) = Len(b)
    THEN [ok |-> TRUE, val |-> [i \in 1..Len(a) |-> IF a[i] = b[i] THEN 1 ELSE 0]]
    ELSE IF Len(a) = 1
    THEN [ok |-> TRUE, val |-> [i \in 1..Len(b) |-> IF a[1] = b[i] THEN 1 ELSE 0]]
    ELSE IF Len(b) = 1
    THEN [ok |-> TRUE, val |-> [i \in 1..Len(a) |-> IF a[i] = b[1] THEN 1 ELSE 0]]
    ELSE [ok |-> FALSE, val |-> <<>>]

\* a mutant of accuracy_fn: the mismatches are counted instead of the matches
accuracy_fn_mismatches(y_true, y_pred) ==
    LET eq == TorchEq(y_true, y_pred) IN
    IF ~eq.ok THEN [ok |-> FALSE, err |-> "RuntimeError", acc |-> <<0, 1>>]
    ELSE IF Len(y_pred) = 0
    THEN [ok |-> FALSE, err |-> "ZeroDivisionError", acc |-> <<0, 1>>]
    ELSE LET correct == Len(eq.val) - TensorSum(eq.val)
             acc == RatMul(Rat(correct, Len(y_pred)), <<100, 1>>)
         IN [ok |-> TRUE, err |-> "", acc |-> acc]

\* a mutant of accuracy_fn: the fraction is returned, not the percentage
accuracy_fn_fraction(y_true, y_pred) ==
    LET eq == TorchEq(y_true, y_pred) IN
    IF ~eq.ok THEN [ok |-> FALSE, err |-> "RuntimeError", acc |-> <<0, 1>>]
    ELSE IF Len(y_pred) = 0
    THEN [ok |-> FALSE, err |-> "ZeroDivisionError", acc |-> <<0, 1>>]
    ELSE LET correct == TensorSum(eq.val)
             acc == Rat(correct, Len(y_pred))
         IN [ok |-> TRUE, err |-> "", acc |-> acc]

\* a mutant of accuracy_fn: the division is by BATCH_SIZE, not by len(y_pred)
accuracy_fn_fixed_len(y_true, y_pred) ==
    LET eq == TorchEq(y_true, y_pred) IN
    IF ~eq.ok THEN [ok |-> FALSE, err |-> "RuntimeError", acc |-> <<0, 1>>]
    ELSE LET correct == TensorSum(eq.val)
             acc == RatMul(Rat(correct, BATCH_SIZE), <<100, 1>>)
         IN [ok |-> TRUE, err |-> "", acc |-> acc]

\* accuracy_fn(y_true, y_pred):
\*     correct = torch.eq(y_true, y_pred).sum().item()
\*     acc = (correct / len(y_pred)) * 100
\*     return acc
accuracy_fn(y_true, y_pred) ==
    LET eq == TorchEq(y_true, y_pred) IN
    IF ~eq.ok THEN [ok |-> FALSE, err |-> "RuntimeError", acc |-> <<0, 1>>]
    ELSE IF Len(y_pred) = 0
    THEN [ok |-> FALSE, err |-> "ZeroDivisionError", acc |-> <<0, 1>>]
    ELSE LET correct == TensorSum(eq.val)
             acc == RatMul(Rat(correct, Len(y_pred)), <<100, 1>>)
         IN [ok |-> TRUE, err |-> "", acc |-> acc]

(***************************************************************************)
(* Data sets and data loaders                                              *)
(***************************************************************************)
\* class_names = train_data.classes: one index per class
ClassIds == 0..(NUM_CLASSES - 1)

\* the label of sample i of a data set (samples are numbered from 1)
Label(i) == (i - 1) % NUM_CLASSES

\* a mutant of DataLoaderLen: drop_last=True, the partial batch is not counted
DataLoaderLen_drop_last(n, B) == n \div B

\* len(DataLoader(data, batch_size=B)) with the default drop_last=False
DataLoaderLen(n, B) == (n + B - 1) \div B

\* a mutant of BatchSpan: the last, partial batch stops one position early
BatchSpan_short(n, B, k) ==
    <<(k - 1) * B + 1, IF k * B < n THEN k * B ELSE n - 1>>

\* the sampler positions <<first, last>> of the k-th batch of a loader over
\* n samples: consecutive chunks of B, the last one holding the remainder
BatchSpan(n, B, k) ==
    <<(k - 1) * B + 1, IF k * B < n THEN k * B ELSE n>>

SpanSize(sp) == sp[2] - sp[1] + 1

\* a mutant of Collate: every batch is read from the start of the order
Collate_restart(order, sp) ==
    [i \in 1..SpanSize(sp) |-> order[i]]

\* the samples of a batch: the sampler's order read at the batch's positions
Collate(order, sp) ==
    [i \in 1..SpanSize(sp) |-> order[sp[1] + i - 1]]

\* shuffle=True: iter(train_dataloader) draws a fresh permutation
ShuffledOrders(n) ==
    {f \in [1..n -> 1..n] : \A i, j \in 1..n : f[i] = f[j] => i = j}

\* shuffle=False: the samples in their stored order
SequentialOrder(n) == [i \in 1..n |-> i]

LabelsOf(X) == [i \in 1..Len(X) |-> Label(X[i])]

(***************************************************************************)
(* The model: shapes through FashionMNISTBaselineModel                     *)
(***************************************************************************)
RECURSIVE Product(_)
Product(s) == IF s = <<>> THEN 1 ELSE s[1] * Product(Tail(s))

\* a mutant of the model class: a ReLU between the two Linear layers
FashionMNISTBaselineModel_relu(input_shape, hidden_units, output_shape) ==
    << [type |-> "Flatten", in_features |-> 0, out_features |-> 0],
       [type |-> "Linear", in_features |-> input_shape, out_features |-> hidden_units],
       [type |-> "ReLU", in_features |-> 0, out_features |-> 0],
       [type |-> "Linear", in_features |-> hidden_units, out_features |-> output_shape] >>

\* a mutant of the model class: the second layer expects input_shape features
FashionMNISTBaselineModel_mismatch(input_shape, hidden_units, output_shape) ==
    << [type |-> "Flatten", in_features |-> 0, out_features |-> 0],
       [type |-> "Linear", in_features |-> input_shape, out_features |-> hidden_units],
       [type |-> "Linear", in_features |-> input_shape, out_features |-> output_shape] >>

\* self.layer_stack = nn.Sequential(nn.Flatten(), nn.Linear(input_shape,
\* hidden_units), nn.Linear(hidden_units, output_shape))
FashionMNISTBaselineModel(input_shape, hidden_units, output_shape) ==
    << [type |-> "Flatten", in_features |-> 0, out_features |-> 0],
       [type |-> "Linear", in_features |-> input_shape, out_features |-> hidden_units],
       [type |-> "Linear", in_features |-> hidden_units, out_features |-> output_shape] >>

\* model_0 = FashionMNISTBaselineModel(input_shape=784, hidden_units=10,
\*                                     output_shape=len(class_names))
model_0 == FashionMNISTBaselineModel(784, 10, Cardinality(ClassIds))

\* one layer applied to a tensor of shape t.shape; t.ok is FALSE once a layer
\* has raised.  Flatten keeps dimension 0 and merges the rest; Linear needs
\* the last dimension to equal in_features and replaces it by out_features;
\* ReLU keeps the shape.
ApplyLayer(layer, t) ==
    IF ~t.ok THEN t
    ELSE IF layer.type = "Flatten"
    THEN [ok |-> TRUE, shape |-> <<t.shape[1], Product(Tail(t.shape))>>]
    ELSE IF layer.type = "Linear"
    THEN IF t.shape[Len(t.shape)] = layer.in_features
         THEN [ok |-> TRUE,
               shape |-> [i \in 1..Len(t.shape) |->
                            IF i = Len(t.shape) THEN layer.out_features
                                                ELSE t.shape[i]]]
         ELSE [ok |-> FALSE, shape |-> t.shape]
    ELSE t

RECURSIVE Sequential(_, _)
Sequential(layers, t) ==
    IF layers = <<>> THEN t
    ELSE Sequential(Tail(layers), ApplyLayer(Head(layers), t))

\* def forward(self, x): return self.layer_stack(x)
forward(x) == Sequential(model_0, x)

\* a batch of n images, each [color_channels, height, width]
ImageBatch(n) == [ok |-> TRUE, shape |-> <<n, IMG_CHANNELS, IMG_SIDE, IMG_SIDE>>]

(***************************************************************************)
(* State                                                                   *)
(***************************************************************************)
VARIABLES
    notebook,     \* which notebook runs: "showcase" or "part_000"
    device,       \* "cuda" if torch.cuda.is_available() else "cpu"
    pc,           \* the statement of the training cell that runs next
    epoch,        \* index of the current iteration of `for epoch in range(epochs)`
    order,        \* the sampler order of the data loader being iterated
    bi,           \* batches fetched from the data loader being iterated
    X,            \* the current batch: the samples it holds
    y,            \* the labels of the current batch
    X_dev,        \* device holding X and y
    model_dev,    \* device holding the parameters of model_0
    mode,         \* "train" or "eval": model_0.training
    grad,         \* number of backward passes accumulated in the .grad fields
    y_pred,       \* output of the training forward pass (its shape)
    test_pred,    \* output of the testing forward pass (its shape)
    train_loss,   \* accumulator of the training loop
    test_loss,    \* accumulator of the testing loop
    test_acc,     \* accumulator of the testing loop
    ops,          \* history: operations of the current training step, in order
    processed,    \* history: optimizer steps that covered each training sample, this epoch
    steps,        \* history: optimizer steps of this epoch
    tested,       \* history: test samples evaluated in this epoch
    n_correct,    \* history: test samples of this epoch whose argmax equals the label
    printed,      \* history: metrics lines printed for each epoch
    exc,          \* the exception raised in the cell, "none" while there is none
    params,       \* the values of model_0's parameters: the optimizer steps that made them
    hist,         \* history: sums and counts of the run of the training cell, and
                  \* the log of what the current epoch did to the model
    ppc,          \* the statement of the prediction cell that runs next, "idle" outside it
    random_garment_idx,  \* the index the prediction cell drew, -1 before it has
    img,          \* sample_image, inside make_predictions img (its shape)
    img_dev,      \* device holding that image
    pred_logit,   \* make_predictions: the output of its forward pass (its shape)
    pred_probs,   \* what make_predictions returned (its shape)
    pred_class,   \* pred_probs.argmax(dim=1): one class index per row
    pexc,         \* the exception raised in the prediction cell, "none" while there is none
    reruns,       \* executions of the training cell after its first
    optimizer_params,  \* whose parameters the optimizer holds: "model_0" for those of
                  \* the object now bound to model_0, "stale" for those of an
                  \* object model_0 was bound to before
    inp,          \* side-by-side run of the two notebooks: the data both are run on
    rec,          \* side-by-side run: what each notebook's epochs did and printed
    fn_true,      \* y_true of a stand-alone call of accuracy_fn
    fn_pred,      \* y_pred of a stand-alone call of accuracy_fn
    fn_out,       \* what that call returned
    fw_n,         \* images in a batch handed to model_0 on its own
    fw_t,         \* that batch on its way through the layers of model_0
    fw_i,         \* layers of model_0 already applied to fw_t
    ld_name,      \* the full-size data loader being iterated
    ld_k,         \* batches it has yielded
    ld_span       \* sampler positions of the batch it yielded last

cellvars == <<pc, epoch, order, bi, X, y, X_dev, model_dev, mode, grad,
              y_pred, test_pred, train_loss, test_loss,
              test_acc, ops, processed, steps, tested, n_correct, printed, exc,
              params, hist>>
predvars == <<ppc, random_garment_idx, img, img_dev, pred_logit, pred_probs,
              pred_class, pexc, reruns>>
confvars == <<notebook, device>>
fnvars == <<fn_true, fn_pred, fn_out>>
fwvars == <<fw_n, fw_t, fw_i>>
ldvars == <<ld_name, ld_k, ld_span>>
sessvars == <<optimizer_params, inp, rec>>
vars == <<confvars, cellvars, predvars, sessvars, fnvars, fwvars, ldvars>>

NoTensor == [ok |-> TRUE, shape |-> <<>>]
NoResult == [ok |-> FALSE, err |-> "not called", acc |-> <<0, 1>>]
Zero == <<0, 1>>
NoHist == [tr_sum |-> 0, te_sum |-> 0, te_n |-> 0, total_steps |-> 0,
           total_evals |-> 0, acc_true |-> 0, acc_pred |-> 0, acc |-> NoResult,
           log |-> <<>>]

\* the state before the training cell has run
CellIdle ==
    /\ pc = "idle"
    /\ epoch = 0
    /\ order = <<>>
    /\ bi = 0
    /\ X = <<>>
    /\ y = <<>>
    /\ X_dev = "cpu"
    /\ model_dev = "cpu"
    /\ mode = "train"
    /\ grad = 0
    /\ y_pred = NoTensor
    /\ test_pred = NoTensor
    /\ train_loss = Zero
    /\ test_loss = Zero
    /\ test_acc = Zero
    /\ ops = <<>>
    /\ processed = [i \in 1..TrainN |-> 0]
    /\ steps = 0
    /\ tested = 0
    /\ n_correct = 0
    /\ printed = [e \in 0..(epochs - 1) |-> 0]
    /\ exc = "none"
    /\ params = 0
    /\ hist = NoHist

\* the state before the prediction cell has run
PredIdle ==
    /\ ppc = "idle"
    /\ random_garment_idx = -1
    /\ img = NoTensor
    /\ img_dev = "cpu"
    /\ pred_logit = NoTensor
    /\ pred_probs = NoTensor
    /\ pred_class = <<>>
    /\ pexc = "none"
    /\ reruns = 0

NoInput == [order |-> <<>>, loss |-> <<>>, hits |-> <<>>]
NoRec == [showcase |-> <<>>, part_000 |-> <<>>]

\* the set-up cells have run once, top to bottom
SessIdle == optimizer_params = "model_0" /\ inp = NoInput /\ rec = NoRec

FnIdle == fn_true = <<>> /\ fn_pred = <<>> /\ fn_out = NoResult
FwIdle == fw_n = 0 /\ fw_t = NoTensor /\ fw_i = 0
LdIdle == ld_name = "none" /\ ld_k = 0 /\ ld_span = <<1, 0>>

(***************************************************************************)
(* The training and testing cell                                           *)
(***************************************************************************)
others == <<confvars, predvars, sessvars, fnvars, fwvars, ldvars>>

\* the cell is started:
\*     epochs = 3
RunTrainingCell ==
    /\ pc = "idle"
    /\ ppc = "idle"
    /\ epoch' = 0
    /\ printed' = [e \in 0..(epochs - 1) |-> 0]
    /\ pc' = IF notebook = "showcase" THEN "model_to" ELSE "epoch_head"
    /\ UNCHANGED <<order, bi, X, y, X_dev, model_dev, mode, grad, y_pred,
                   test_pred, train_loss, test_loss,
                   test_acc, ops, processed, steps, tested, n_correct>>
    /\ UNCHANGED exc
    /\ UNCHANGED <<params, hist>>
    /\ UNCHANGED others

\* showcase only:  model_0.to(device)
ModelToDevice ==
    /\ pc = "model_to"
    /\ model_dev' = device
    /\ pc' = "epoch_head"
    /\ UNCHANGED <<epoch, order, bi, X, y, X_dev, mode, grad, y_pred,
                   test_pred, train_loss, test_loss,
                   test_acc, ops, processed, steps, tested, n_correct, printed>>
    /\ UNCHANGED exc
    /\ UNCHANGED <<params, hist>>
    /\ UNCHANGED others

\* a mutant of EpochBegin: train_loss = 0 stands before the loop over the
\* epochs, an epoch adds to what the last one left
EpochBegin_no_reset ==
    /\ pc = "epoch_head"
    /\ epoch < epochs
    /\ order' \in ShuffledOrders(TrainN)
    /\ bi' = 0
    /\ processed' = [i \in 1..TrainN |-> 0]
    /\ steps' = 0
    /\ pc' = "train_head"
    /\ UNCHANGED <<epoch, train_loss, X, y, X_dev, model_dev, mode, grad, y_pred,
                   test_pred, test_loss, test_acc, ops,
                   tested, n_correct, printed>>
    /\ UNCHANGED exc
    /\ hist' = [hist EXCEPT !.tr_sum = 0]
    /\ UNCHANGED params
    /\ UNCHANGED others

\* for epoch in tqdm(range(epochs)):  an iteration begins
\*     print(f"Epoch: {epoch}\n")
\*     train_loss = 0
\*     for X, y in train_dataloader:     (the iterator is created: a shuffle)
EpochBegin ==
    /\ pc = "epoch_head"
    /\ epoch < epochs
    /\ train_loss' = Zero
    /\ order' \in ShuffledOrders(TrainN)
    /\ bi' = 0
    /\ processed' = [i \in 1..TrainN |-> 0]
    /\ steps' = 0
    /\ pc' = "train_head"
    /\ UNCHANGED <<epoch, X, y, X_dev, model_dev, mode, grad, y_pred,
                   test_pred, test_loss, test_acc, ops,
                   tested, n_correct, printed>>
    /\ UNCHANGED exc
    /\ hist' = [hist EXCEPT !.tr_sum = 0, !.log = <<>>]
    /\ UNCHANGED params
    /\ UNCHANGED others

\* for epoch in tqdm(range(epochs)):  the range is exhausted, the cell ends
EpochsDone ==
    /\ pc = "epoch_head"
    /\ epoch >= epochs
    /\ pc' = "done"
    /\ UNCHANGED <<epoch, order, bi, X, y, X_dev, model_dev, mode, grad,
                   y_pred, test_pred, train_loss, test_loss,
                   test_acc, ops, processed, steps, tested, n_correct, printed>>
    /\ UNCHANGED exc
    /\ UNCHANGED <<params, hist>>
    /\ UNCHANGED others

\* for X, y in train_dataloader:  the next batch is yielded (on the CPU)
TrainFetch ==
    /\ pc = "train_head"
    /\ bi < DataLoaderLen(TrainN, BatchN)
    /\ bi' = bi + 1
    /\ X' = Collate(order, BatchSpan(TrainN, BatchN, bi + 1))
    /\ y' = LabelsOf(X')
    /\ X_dev' = "cpu"
    /\ ops' = <<>>
    /\ pc' = IF notebook = "showcase" THEN "to_device" ELSE "train_mode"
    /\ UNCHANGED <<epoch, order, model_dev, mode, grad, y_pred, test_pred,
                   train_loss, test_loss, test_acc,
                   processed, steps, tested, n_correct, printed>>
    /\ UNCHANGED exc
    /\ UNCHANGED <<params, hist>>
    /\ UNCHANGED others

\* a mutant of BatchToDevice: the copies made by .to(device) are dropped,
\* X and y stay where the loader put them
BatchToDevice_discarded ==
    /\ pc = "to_device"
    /\ pc' = "train_mode"
    /\ UNCHANGED <<epoch, order, bi, X, y, X_dev, model_dev, mode, grad, y_pred,
                   test_pred, train_loss, test_loss,
                   test_acc, ops, processed, steps, tested, n_correct, printed>>
    /\ UNCHANGED <<exc, params, hist>>
    /\ UNCHANGED others

\* a mutant of BatchToDevice: the showcase loop has lost its model_0.train(),
\* the forward pass follows the move of the batch
BatchToDevice_no_train ==
    /\ pc = "to_device"
    /\ X_dev' = device
    /\ pc' = "forward"
    /\ UNCHANGED <<epoch, order, bi, X, y, model_dev, mode, grad, y_pred,
                   test_pred, train_loss, test_loss,
                   test_acc, ops, processed, steps, tested, n_correct, printed>>
    /\ UNCHANGED <<exc, params, hist>>
    /\ UNCHANGED others

\* showcase only:  X, y = X.to(device), y.to(device)
BatchToDevice ==
    /\ pc = "to_device"
    /\ X_dev' = device
    /\ pc' = "train_mode"
    /\ UNCHANGED <<epoch, order, bi, X, y, model_dev, mode, grad, y_pred,
                   test_pred, train_loss, test_loss,
                   test_acc, ops, processed, steps, tested, n_correct, printed>>
    /\ UNCHANGED exc
    /\ UNCHANGED <<params, hist>>
    /\ UNCHANGED others

\* model_0.train()
ModelTrain ==
    /\ pc = "train_mode"
    /\ mode' = "train"
    /\ pc' = "forward"
    /\ UNCHANGED <<epoch, order, bi, X, y, X_dev, model_dev, grad, y_pred,
                   test_pred, train_loss, test_loss,
                   test_acc, ops, processed, steps, tested, n_correct, printed>>
    /\ UNCHANGED exc
    /\ hist' = [hist EXCEPT !.log = Append(@, "train_mode")]
    /\ UNCHANGED params
    /\ UNCHANGED others

\* y_pred = model_0(X)          (showcase also: y_pred.to(device), discarded)
\* raises when X and the parameters are on different devices, or on a shape
\* mismatch inside the layer stack
ForwardPass ==
    /\ pc = "forward"
    /\ LET out == forward(ImageBatch(Len(X))) IN
       IF X_dev = model_dev /\ out.ok
       THEN /\ y_pred' = out
            /\ ops' = Append(ops, "forward")
            /\ hist' = [hist EXCEPT !.log = Append(@, "forward")]
            /\ pc' = "loss"
            /\ UNCHANGED exc
       ELSE /\ pc' = "aborted"
            /\ exc' = "RuntimeError"
            /\ UNCHANGED <<y_pred, ops, hist>>
    /\ UNCHANGED <<epoch, order, bi, X, y, X_dev, model_dev, mode, grad,
                   test_pred, train_loss, test_loss,
                   test_acc, processed, steps, tested, n_correct, printed>>
    /\ UNCHANGED params
    /\ UNCHANGED others

\* a mutant of CalculateLoss: optimizer.zero_grad() is missing from the loop
\* body, the backward pass follows the loss directly
CalculateLoss_no_zero_grad ==
    /\ pc = "loss"
    /\ \E l \in 0..MaxLoss :
         /\ train_loss' = RatAdd(train_loss, <<l, 1>>)
         /\ hist' = [hist EXCEPT !.tr_sum = @ + l]
    /\ ops' = Append(ops, "loss")
    /\ pc' = "backward"
    /\ UNCHANGED <<epoch, order, bi, X, y, X_dev, model_dev, mode, grad,
                   y_pred, test_pred, test_loss, test_acc,
                   processed, steps, tested, n_correct, printed, exc>>
    /\ UNCHANGED params
    /\ UNCHANGED others

\* loss = loss_fn(y_pred, y)
\* train_loss += loss
CalculateLoss ==
    /\ pc = "loss"
    /\ IF y_pred.shape = <<Len(y), Cardinality(ClassIds)>>
       THEN /\ \E l \in 0..MaxLoss :
                 /\ train_loss' = RatAdd(train_loss, <<l, 1>>)
                 /\ hist' = [hist EXCEPT !.tr_sum = @ + l, !.log = Append(@, "loss")]
            /\ ops' = Append(ops, "loss")
            /\ pc' = "zero_grad"
            /\ UNCHANGED exc
       ELSE /\ pc' = "aborted"
            /\ exc' = "ValueError"
            /\ UNCHANGED <<train_loss, ops, hist>>
    /\ UNCHANGED <<epoch, order, bi, X, y, X_dev, model_dev, mode, grad,
                   y_pred, test_pred, test_loss, test_acc,
                   processed, steps, tested, n_correct, printed>>
    /\ UNCHANGED params
    /\ UNCHANGED others

\* a mutant of OptimizerZeroGrad: the gradients are zeroed for the first batch
\* of an epoch only
OptimizerZeroGrad_once ==
    /\ pc = "zero_grad"
    /\ grad' = IF bi = 1 THEN 0 ELSE grad
    /\ ops' = Append(ops, "zero_grad")
    /\ pc' = "backward"
    /\ UNCHANGED <<epoch, order, bi, X, y, X_dev, model_dev, mode, y_pred,
                   test_pred, train_loss, test_loss,
                   test_acc, processed, steps, tested, n_correct, printed>>
    /\ UNCHANGED <<exc, params, hist>>
    /\ UNCHANGED others

\* optimizer.zero_grad():  the .grad fields of the parameters the optimizer
\* holds are cleared
OptimizerZeroGrad ==
    /\ pc = "zero_grad"
    /\ grad' = IF optimizer_params = "model_0" THEN 0 ELSE grad
    /\ ops' = Append(ops, "zero_grad")
    /\ pc' = "backward"
    /\ UNCHANGED <<epoch, order, bi, X, y, X_dev, model_dev, mode, y_pred,
                   test_pred, train_loss, test_loss,
                   test_acc, processed, steps, tested, n_correct, printed>>
    /\ UNCHANGED exc
    /\ hist' = [hist EXCEPT !.log = Append(@, "zero_grad")]
    /\ UNCHANGED params
    /\ UNCHANGED others

\* loss.backward():  the gradients of this loss are added to the .grad fields
LossBackward ==
    /\ pc = "backward"
    /\ grad' = grad + 1
    /\ ops' = Append(ops, "backward")
    /\ pc' = "step"
    /\ UNCHANGED <<epoch, order, bi, X, y, X_dev, model_dev, mode, y_pred,
                   test_pred, train_loss, test_loss,
                   test_acc, processed, steps, tested, n_correct, printed>>
    /\ UNCHANGED exc
    /\ hist' = [hist EXCEPT !.log = Append(@, "backward")]
    /\ UNCHANGED params
    /\ UNCHANGED others

\* optimizer.step():  the last statement of the loop body; the parameters the
\* optimizer holds are updated
OptimizerStep ==
    /\ pc = "step"
    /\ ops' = Append(ops, "step")
    /\ steps' = steps + 1
    /\ processed' = [i \in 1..TrainN |->
                        IF \E j \in 1..Len(X) : X[j] = i
                        THEN processed[i] + 1 ELSE processed[i]]
    /\ pc' = "train_head"
    /\ UNCHANGED <<epoch, order, bi, X, y, X_dev, model_dev, mode, grad,
                   y_pred, test_pred, train_loss, test_loss,
                   test_acc, tested, n_correct, printed>>
    /\ UNCHANGED exc
    /\ params' = IF optimizer_params = "model_0" THEN params + 1 ELSE params
    /\ hist' = [hist EXCEPT !.total_steps = @ + 1, !.log = Append(@, "step")]
    /\ UNCHANGED others

\* a mutant of TrainLoopEnd: model_0.eval() is missing, the testing loop runs in
\* the mode the training loop left
TrainLoopEnd_no_eval ==
    /\ pc = "train_head"
    /\ bi >= DataLoaderLen(TrainN, BatchN)
    /\ train_loss' = RatDivInt(train_loss, DataLoaderLen(TrainN, BatchN))
    /\ test_loss' = Zero
    /\ test_acc' = Zero
    /\ tested' = 0
    /\ n_correct' = 0
    /\ order' = SequentialOrder(TestN)
    /\ bi' = 0
    /\ pc' = "test_head"
    /\ UNCHANGED <<epoch, X, y, X_dev, model_dev, mode, grad, y_pred, test_pred,
                   ops, processed, steps, printed>>
    /\ UNCHANGED exc
    /\ hist' = [hist EXCEPT !.te_sum = 0, !.te_n = 0, !.acc_true = 0,
                             !.acc_pred = 0, !.acc = NoResult]
    /\ UNCHANGED params
    /\ UNCHANGED others

\* for X, y in train_dataloader:  the loader is exhausted
\*     train_loss /= len(train_dataloader)
\*     test_loss, test_acc = 0, 0
\*     model_0.eval()
\*     with torch.inference_mode():
\*         for X, y in test_dataloader:          (the iterator is created)
TrainLoopEnd ==
    /\ pc = "train_head"
    /\ bi >= DataLoaderLen(TrainN, BatchN)
    /\ train_loss' = RatDivInt(train_loss, DataLoaderLen(TrainN, BatchN))
    /\ test_loss' = Zero
    /\ test_acc' = Zero
    /\ tested' = 0
    /\ n_correct' = 0
    /\ mode' = "eval"
    /\ order' = SequentialOrder(TestN)
    /\ bi' = 0
    /\ pc' = "test_head"
    /\ UNCHANGED <<epoch, X, y, X_dev, model_dev, grad, y_pred, test_pred,
                   ops, processed, steps, printed>>
    /\ UNCHANGED exc
    /\ hist' = [hist EXCEPT !.te_sum = 0, !.te_n = 0, !.acc_true = 0,
                             !.acc_pred = 0, !.acc = NoResult,
                             !.log = Append(@, "eval_mode")]
    /\ UNCHANGED params
    /\ UNCHANGED others

\* for X, y in test_dataloader:  the next batch is yielded (on the CPU)
TestFetch ==
    /\ pc = "test_head"
    /\ bi < DataLoaderLen(TestN, BatchN)
    /\ bi' = bi + 1
    /\ X' = Collate(order, BatchSpan(TestN, BatchN, bi + 1))
    /\ y' = LabelsOf(X')
    /\ X_dev' = "cpu"
    /\ pc' = IF notebook = "showcase" THEN "test_to_device" ELSE "test_forward"
    /\ UNCHANGED <<epoch, order, model_dev, mode, grad, y_pred, test_pred,
                   train_loss, test_loss, test_acc, ops,
                   processed, steps, tested, n_correct, printed>>
    /\ UNCHANGED exc
    /\ UNCHANGED <<params, hist>>
    /\ UNCHANGED others

\* showcase only:  X, y = X.to(device), y.to(device)
TestBatchToDevice ==
    /\ pc = "test_to_device"
    /\ X_dev' = device
    /\ pc' = "test_forward"
    /\ UNCHANGED <<epoch, order, bi, X, y, model_dev, mode, grad, y_pred,
                   test_pred, train_loss, test_loss,
                   test_acc, ops, processed, steps, tested, n_correct, printed>>
    /\ UNCHANGED exc
    /\ UNCHANGED <<params, hist>>
    /\ UNCHANGED others

\* test_pred = model_0(X)       (showcase also: test_pred.to(device), discarded)
TestForwardPass ==
    /\ pc = "test_forward"
    /\ LET out == forward(ImageBatch(Len(X))) IN
       IF X_dev = model_dev /\ out.ok /\ Len(out.shape) = 2
       THEN /\ test_pred' = out
            /\ hist' = [hist EXCEPT !.total_evals = @ + 1,
                                     !.log = Append(@, "eval_forward")]
            /\ pc' = "test_loss"
            /\ UNCHANGED exc
       ELSE /\ pc' = "aborted"
            /\ exc' = "RuntimeError"
            /\ UNCHANGED <<test_pred, hist>>
    /\ UNCHANGED <<epoch, order, bi, X, y, X_dev, model_dev, mode, grad,
                   y_pred, train_loss, test_loss, test_acc, ops,
                   processed, steps, tested, n_correct, printed>>
    /\ UNCHANGED params
    /\ UNCHANGED others

\* a mutant of TestCalculateLoss: the testing loop repeats the training step,
\* the optimizer updates the parameters on the test batch too
TestCalculateLoss_with_step ==
    /\ pc = "test_loss"
    /\ \E l \in 0..MaxLoss :
         /\ test_loss' = RatAdd(test_loss, <<l, 1>>)
         /\ hist' = [hist EXCEPT !.te_sum = @ + l, !.te_n = @ + 1]
    /\ params' = params + 1
    /\ pc' = "test_acc"
    /\ UNCHANGED <<epoch, order, bi, X, y, X_dev, model_dev, mode, grad,
                   y_pred, test_pred, train_loss, test_acc,
                   ops, processed, steps, tested, n_correct, printed, exc>>
    /\ UNCHANGED others

\* test_loss += loss_fn(test_pred, y)
TestCalculateLoss ==
    /\ pc = "test_loss"
    /\ IF test_pred.shape = <<Len(y), Cardinality(ClassIds)>>
       THEN /\ \E l \in 0..MaxLoss :
                 /\ test_loss' = RatAdd(test_loss, <<l, 1>>)
                 /\ hist' = [hist EXCEPT !.te_sum = @ + l, !.te_n = @ + 1]
            /\ pc' = "test_acc"
            /\ UNCHANGED exc
       ELSE /\ pc' = "aborted"
            /\ exc' = "ValueError"
            /\ UNCHANGED <<test_loss, hist>>
    /\ UNCHANGED <<epoch, order, bi, X, y, X_dev, model_dev, mode, grad,
                   y_pred, test_pred, train_loss, test_acc,
                   ops, processed, steps, tested, n_correct, printed>>
    /\ UNCHANGED params
    /\ UNCHANGED others

\* a mutant of TestCalculateAccuracy: test_pred.argmax(dim=0), one index per
\* class instead of one per sample
TestCalculateAccuracy_dim0 ==
    /\ pc = "test_acc"
    /\ \E argmax \in [1..test_pred.shape[2] -> 0..(test_pred.shape[1] - 1)] :
         LET r == accuracy_fn(y, argmax) IN
         /\ hist' = [hist EXCEPT !.acc_true = Len(y), !.acc_pred = Len(argmax),
                                  !.acc = r]
         /\ IF r.ok
            THEN /\ test_acc' = RatAdd(test_acc, r.acc)
                 /\ tested' = tested + Len(X)
                 /\ n_correct' = n_correct
                      + Cardinality({i \in 1..Len(X) : argmax[i] = Label(X[i])})
                 /\ pc' = "test_head"
                 /\ UNCHANGED exc
            ELSE /\ pc' = "aborted"
                 /\ exc' = r.err
                 /\ UNCHANGED <<test_acc, tested, n_correct>>
    /\ UNCHANGED <<epoch, order, bi, X, y, X_dev, model_dev, mode, grad,
                   y_pred, test_pred, train_loss, test_loss,
                   ops, processed, steps, printed>>
    /\ UNCHANGED params
    /\ UNCHANGED others

\* test_acc += accuracy_fn(y_true=y, y_pred=test_pred.argmax(dim=1))
\* the logits are whatever the parameters give: the argmax of a row is any of
\* its test_pred.shape[2] columns
TestCalculateAccuracy ==
    /\ pc = "test_acc"
    /\ \E argmax \in [1..test_pred.shape[1] -> 0..(test_pred.shape[2] - 1)] :
         LET r == accuracy_fn(y, argmax) IN
         /\ hist' = [hist EXCEPT !.acc_true = Len(y), !.acc_pred = Len(argmax),
                                  !.acc = r]
         /\ IF r.ok
            THEN /\ test_acc' = RatAdd(test_acc, r.acc)
                 /\ tested' = tested + Len(X)
                 /\ n_correct' = n_correct
                      + Cardinality({i \in 1..Len(X) : argmax[i] = Label(X[i])})
                 /\ pc' = "test_head"
                 /\ UNCHANGED exc
            ELSE /\ pc' = "aborted"
                 /\ exc' = r.err
                 /\ UNCHANGED <<test_acc, tested, n_correct>>
    /\ UNCHANGED <<epoch, order, bi, X, y, X_dev, model_dev, mode, grad,
                   y_pred, test_pred, train_loss, test_loss,
                   ops, processed, steps, printed>>
    /\ UNCHANGED params
    /\ UNCHANGED others

\* a mutant of TestLoopEnd: the metrics follow the first test batch already
TestLoopEnd_early ==
    /\ pc = "test_head"
    /\ bi >= 1
    /\ test_loss' = RatDivInt(test_loss, DataLoaderLen(TestN, BatchN))
    /\ test_acc' = RatDivInt(test_acc, DataLoaderLen(TestN, BatchN))
    /\ order' = <<>>
    /\ pc' = "print"
    /\ UNCHANGED <<epoch, bi, X, y, X_dev, model_dev, mode, grad, y_pred,
                   test_pred, train_loss, ops, processed,
                   steps, tested, n_correct, printed, exc>>
    /\ UNCHANGED <<params, hist>>
    /\ UNCHANGED others

\* for X, y in test_dataloader:  the loader is exhausted
\*     test_loss /= len(test_dataloader)
\*     test_acc /= len(test_dataloader)
TestLoopEnd ==
    /\ pc = "test_head"
    /\ bi >= DataLoaderLen(TestN, BatchN)
    /\ test_loss' = RatDivInt(test_loss, DataLoaderLen(TestN, BatchN))
    /\ test_acc' = RatDivInt(test_acc, DataLoaderLen(TestN, BatchN))
    /\ order' = <<>>
    /\ pc' = "print"
    /\ UNCHANGED <<epoch, bi, X, y, X_dev, model_dev, mode, grad, y_pred,
                   test_pred, train_loss, ops, processed,
                   steps, tested, n_correct, printed>>
    /\ UNCHANGED exc
    /\ UNCHANGED <<params, hist>>
    /\ UNCHANGED others

\* print(f"\nTrain loss: {train_loss:.4f} | Test loss: {test_loss:.4f}, Test acc: {test_acc:.2f}%\n")
\* the last statement of the epoch's body: the next iteration follows
PrintMetrics ==
    /\ pc = "print"
    /\ printed' = [printed EXCEPT ![epoch] = @ + 1]
    /\ epoch' = epoch + 1
    /\ pc' = "epoch_head"
    /\ UNCHANGED <<order, bi, X, y, X_dev, model_dev, mode, grad, y_pred,
                   test_pred, train_loss, test_loss,
                   test_acc, ops, processed, steps, tested, n_correct>>
    /\ UNCHANGED exc
    /\ UNCHANGED <<params, hist>>
    /\ UNCHANGED others

\* the statements that call into the library and may raise
FailPoints == {"model_to", "to_device", "forward", "loss", "zero_grad",
               "backward", "step", "test_to_device", "test_forward",
               "test_loss", "test_acc"}

\* a mutant of Fail: the exception is swallowed and the loop goes on with the
\* next batch
Fail_continue ==
    /\ pc \in FailPoints
    /\ exc' = "Exception"
    /\ pc' = IF pc \in {"test_to_device", "test_forward", "test_loss", "test_acc"}
             THEN "test_head"
             ELSE IF pc = "model_to" THEN "epoch_head" ELSE "train_head"
    /\ UNCHANGED <<epoch, order, bi, X, y, X_dev, model_dev, mode, grad,
                   y_pred, test_pred, train_loss, test_loss,
                   test_acc, ops, processed, steps, tested, n_correct, printed>>
    /\ UNCHANGED <<params, hist>>
    /\ UNCHANGED others

\* a library call raises (out of memory, device error, interrupt, ...): the
\* cell has no try/except, so the exception ends the cell
Fail ==
    /\ pc \in FailPoints
    /\ exc' = "Exception"
    /\ pc' = "aborted"
    /\ UNCHANGED <<epoch, order, bi, X, y, X_dev, model_dev, mode, grad,
                   y_pred, test_pred, train_loss, test_loss,
                   test_acc, ops, processed, steps, tested, n_correct, printed>>
    /\ UNCHANGED <<params, hist>>
    /\ UNCHANGED others

Init ==
    /\ notebook \in {"showcase", "part_000"}
    /\ device \in {"cpu", "cuda"}
    /\ CellIdle
    /\ PredIdle
    /\ SessIdle
    /\ FnIdle
    /\ FwIdle
    /\ LdIdle

Next ==
    \/ RunTrainingCell
    \/ ModelToDevice
    \/ EpochBegin
    \/ EpochsDone
    \/ TrainFetch
    \/ BatchToDevice
    \/ ModelTrain
    \/ ForwardPass
    \/ CalculateLoss
    \/ OptimizerZeroGrad
    \/ LossBackward
    \/ OptimizerStep
    \/ TrainLoopEnd
    \/ TestFetch
    \/ TestBatchToDevice
    \/ TestForwardPass
    \/ TestCalculateLoss
    \/ TestCalculateAccuracy
    \/ TestLoopEnd
    \/ PrintMetrics
    \/ Fail

Spec == Init /\ [][Next]_vars

\* the cell when no library call fails
NextNoFail ==
    \/ RunTrainingCell
    \/ ModelToDevice
    \/ EpochBegin
    \/ EpochsDone
    \/ TrainFetch
    \/ BatchToDevice
    \/ ModelTrain
    \/ ForwardPass
    \/ CalculateLoss
    \/ OptimizerZeroGrad
    \/ LossBackward
    \/ OptimizerStep
    \/ TrainLoopEnd
    \/ TestFetch
    \/ TestBatchToDevice
    \/ TestForwardPass
    \/ TestCalculateLoss
    \/ TestCalculateAccuracy
    \/ TestLoopEnd
    \/ PrintMetrics

\* the kernel runs the cell's statements one after the other until the cell
\* ends: a statement that can run does run
SpecNoFail == Init /\ [][NextNoFail]_vars /\ WF_vars(NextNoFail)

(***************************************************************************)
(* The prediction cell and make_predictions                                *)
(***************************************************************************)
trainvars == <<pc, epoch, order, bi, X, y, X_dev, grad, y_pred, test_pred,
               train_loss, test_loss, test_acc, ops, processed, steps, tested,
               n_correct, printed, exc, params, hist>>
rest == <<confvars, sessvars, fnvars, fwvars, ldvars>>

\* the data set the prediction cell samples: test_data in the showcase
\* notebook, train_data in part_000 (scaled as the loaders are)
PredDataLen == IF notebook = "showcase" THEN TestN ELSE TrainN

\* one image of the data set: [color_channels, height, width]
SampleImage == [ok |-> TRUE, shape |-> <<IMG_CHANNELS, IMG_SIDE, IMG_SIDE>>]

\* torch.unsqueeze(t, dim=0)
Unsqueeze0(t) == [ok |-> t.ok, shape |-> <<1>> \o t.shape]

\* t.squeeze(): every dimension of size 1 is removed
RECURSIVE SqueezeShape(_)
SqueezeShape(sh) ==
    IF sh = <<>> THEN <<>>
    ELSE IF Head(sh) = 1 THEN SqueezeShape(Tail(sh))
    ELSE <<Head(sh)>> \o SqueezeShape(Tail(sh))

Squeeze(t) == [ok |-> t.ok, shape |-> SqueezeShape(t.shape)]

\* torch.stack(ts): a new dimension 0 over tensors of one shape
Stack(ts) ==
    [ok |-> \A i \in 1..Len(ts) : ts[i].ok /\ ts[i].shape = ts[1].shape,
     shape |-> <<Len(ts)>> \o ts[1].shape]

\* t.argmax(dim=1): dimension 1 is reduced, every remaining element is an
\* index into it
ArgmaxDim1(t) ==
    [1..(Product(t.shape) \div t.shape[2]) -> 0..(t.shape[2] - 1)]

\* the cell is started:
\*     random_garment_idx = random.randint(0, len(test_data))
\* random.randint(a, b) returns an N with a <= N <= b
RunPredictionCell ==
    /\ ppc = "idle"
    /\ pc \in {"idle", "done", "aborted"}
    /\ random_garment_idx' \in 0..PredDataLen
    /\ pexc' = "none"
    /\ ppc' = "getitem"
    /\ UNCHANGED <<img, img_dev, pred_logit, pred_probs, pred_class, reruns>>
    /\ UNCHANGED <<trainvars, model_dev, mode, rest>>

\* sample_image, ground_truth_label = test_data[random_garment_idx]
\* the data set holds the indices 0 .. len - 1
PredGetItem ==
    /\ ppc = "getitem"
    /\ IF random_garment_idx < PredDataLen
       THEN /\ img' = SampleImage
            /\ img_dev' = "cpu"
            /\ ppc' = IF notebook = "showcase" THEN "args_to" ELSE "mp_eval"
            /\ UNCHANGED pexc
       ELSE /\ pexc' = "IndexError"
            /\ ppc' = "idle"
            /\ UNCHANGED <<img, img_dev>>
    /\ UNCHANGED <<random_garment_idx, pred_logit, pred_probs, pred_class, reruns>>
    /\ UNCHANGED <<trainvars, model_dev, mode, rest>>

\* showcase only, the arguments of the call:
\*     make_predictions(model=model_0.to(device), img=sample_image.to(device))
PredArgsToDevice ==
    /\ ppc = "args_to"
    /\ model_dev' = device
    /\ img_dev' = device
    /\ ppc' = "mp_eval"
    /\ UNCHANGED <<random_garment_idx, img, pred_logit, pred_probs, pred_class,
                   pexc, reruns>>
    /\ UNCHANGED <<trainvars, mode, rest>>

\* make_predictions:
\*     pred_probs = []
\*     model.eval()
MakePredictionsEval ==
    /\ ppc = "mp_eval"
    /\ mode' = "eval"
    /\ ppc' = "mp_unsqueeze"
    /\ UNCHANGED <<random_garment_idx, img, img_dev, pred_logit, pred_probs,
                   pred_class, pexc, reruns>>
    /\ UNCHANGED <<trainvars, model_dev, rest>>

\* showcase:  img = torch.unsqueeze(img, dim=0)
\* part_000:  img = torch.unsqueeze(img, dim=0).to(device)
MakePredictionsUnsqueeze ==
    /\ ppc = "mp_unsqueeze"
    /\ img' = Unsqueeze0(img)
    /\ img_dev' = IF notebook = "part_000" THEN device ELSE img_dev
    /\ ppc' = "mp_forward"
    /\ UNCHANGED <<random_garment_idx, pred_logit, pred_probs, pred_class,
                   pexc, reruns>>
    /\ UNCHANGED <<trainvars, model_dev, mode, rest>>

\* pred_logit = model(img)
\* raises when img and the parameters are on different devices, or on a shape
\* mismatch inside the layer stack
MakePredictionsForward ==
    /\ ppc = "mp_forward"
    /\ LET out == forward(img) IN
       IF img_dev = model_dev /\ out.ok
       THEN /\ pred_logit' = out
            /\ ppc' = "mp_return"
            /\ UNCHANGED pexc
       ELSE /\ pexc' = "RuntimeError"
            /\ ppc' = "idle"
            /\ UNCHANGED pred_logit
    /\ UNCHANGED <<random_garment_idx, img, img_dev, pred_probs, pred_class, reruns>>
    /\ UNCHANGED <<trainvars, model_dev, mode, rest>>

\* a mutant of MakePredictionsReturn: the softmax is taken of pred_logit as it
\* is, without .squeeze()
MakePredictionsReturn_no_squeeze ==
    /\ ppc = "mp_return"
    /\ pred_probs' = Stack(<<pred_logit>>)
    /\ pred_logit' = NoTensor
    /\ ppc' = "argmax"
    /\ UNCHANGED <<random_garment_idx, img, img_dev, pred_class, pexc, reruns>>
    /\ UNCHANGED <<trainvars, model_dev, mode, rest>>

\*     pred_prob = torch.softmax(pred_logit.squeeze(), dim=0)
\*     pred_probs.append(pred_prob.cpu())
\*     return torch.stack(pred_probs)
\* back in the cell:  pred_probs = make_predictions(...)
MakePredictionsReturn ==
    /\ ppc = "mp_return"
    /\ pred_probs' = Stack(<<Squeeze(pred_logit)>>)
    /\ pred_logit' = NoTensor
    /\ ppc' = "argmax"
    /\ UNCHANGED <<random_garment_idx, img, img_dev, pred_class, pexc, reruns>>
    /\ UNCHANGED <<trainvars, model_dev, mode, rest>>

\* pred_class = pred_probs.argmax(dim=1)
\* the probabilities are whatever the parameters give
PredArgmax ==
    /\ ppc = "argmax"
    /\ IF Len(pred_probs.shape) >= 2
       THEN /\ pred_class' \in ArgmaxDim1(pred_probs)
            /\ ppc' = "print"
            /\ UNCHANGED pexc
       ELSE /\ pexc' = "IndexError"
            /\ ppc' = "idle"
            /\ UNCHANGED pred_class
    /\ UNCHANGED <<random_garment_idx, img, img_dev, pred_logit, pred_probs, reruns>>
    /\ UNCHANGED <<trainvars, model_dev, mode, rest>>

\* print(f" The predicted class is: {pred_class.item()}, {class_names[pred_class.item()]}")
\* .item() needs a tensor of one element, class_names holds the indices
\* 0 .. len(class_names) - 1
PredPrint ==
    /\ ppc = "print"
    /\ pexc' = IF Len(pred_class) # 1 THEN "RuntimeError"
               ELSE IF pred_class[1] \notin ClassIds THEN "IndexError"
               ELSE "none"
    /\ ppc' = "idle"
    /\ UNCHANGED <<random_garment_idx, img, img_dev, pred_logit, pred_probs,
                   pred_class, reruns>>
    /\ UNCHANGED <<trainvars, model_dev, mode, rest>>

InitPred ==
    /\ notebook \in {"showcase", "part_000"}
    /\ device \in {"cpu", "cuda"}
    /\ CellIdle
    /\ PredIdle
    /\ SessIdle
    /\ FnIdle
    /\ FwIdle
    /\ LdIdle

NextPred ==
    \/ RunPredictionCell
    \/ PredGetItem
    \/ PredArgsToDevice
    \/ MakePredictionsEval
    \/ MakePredictionsUnsqueeze
    \/ MakePredictionsForward
    \/ MakePredictionsReturn
    \/ PredArgmax
    \/ PredPrint

\* the prediction cell run any number of times in a fresh kernel
SpecPred == InitPred /\ [][NextPred]_vars

(***************************************************************************)
(* A notebook session: the two cells executed in any order, again and      *)
(* again, each execution ending normally or in an exception                *)
(***************************************************************************)
\* the training cell is started again: its names are rebound as at its first
\* execution, everything else in the kernel is as the last executions left it
RerunTrainingCell ==
    /\ pc \in {"done", "aborted"}
    /\ ppc = "idle"
    /\ reruns < MaxReruns
    /\ reruns' = reruns + 1
    /\ epoch' = 0
    /\ printed' = [e \in 0..(epochs - 1) |-> 0]
    /\ exc' = "none"
    /\ hist' = NoHist
    /\ pc' = IF notebook = "showcase" THEN "model_to" ELSE "epoch_head"
    /\ UNCHANGED <<order, bi, X, y, X_dev, model_dev, mode, grad, y_pred,
                   test_pred, train_loss, test_loss,
                   test_acc, ops, processed, steps, tested, n_correct, params>>
    /\ UNCHANGED <<ppc, random_garment_idx, img, img_dev, pred_logit,
                   pred_probs, pred_class, pexc>>
    /\ UNCHANGED rest

\* the session is explored for one run of the data: every loss is 0, no
\* prediction is right, the shuffle leaves the order as it is, the index
\* drawn is 0
OneDataRun ==
    /\ train_loss = Zero
    /\ test_loss = Zero
    /\ test_acc = Zero
    /\ order = SequentialOrder(Len(order))
    /\ random_garment_idx \in {-1, 0}
    /\ pred_class \in {<<>>, <<0>>}

NextNb ==
    \/ RunTrainingCell /\ OneDataRun'
    \/ ModelToDevice /\ OneDataRun'
    \/ EpochBegin /\ OneDataRun'
    \/ EpochsDone /\ OneDataRun'
    \/ TrainFetch /\ OneDataRun'
    \/ BatchToDevice /\ OneDataRun'
    \/ ModelTrain /\ OneDataRun'
    \/ ForwardPass /\ OneDataRun'
    \/ CalculateLoss /\ OneDataRun'
    \/ OptimizerZeroGrad /\ OneDataRun'
    \/ LossBackward /\ OneDataRun'
    \/ OptimizerStep /\ OneDataRun'
    \/ TrainLoopEnd /\ OneDataRun'
    \/ TestFetch /\ OneDataRun'
    \/ TestBatchToDevice /\ OneDataRun'
    \/ TestForwardPass /\ OneDataRun'
    \/ TestCalculateLoss /\ OneDataRun'
    \/ TestCalculateAccuracy /\ OneDataRun'
    \/ TestLoopEnd /\ OneDataRun'
    \/ PrintMetrics /\ OneDataRun'
    \/ Fail /\ OneDataRun'
    \/ RerunTrainingCell /\ OneDataRun'
    \/ RunPredictionCell /\ OneDataRun'
    \/ PredGetItem /\ OneDataRun'
    \/ PredArgsToDevice /\ OneDataRun'
    \/ MakePredictionsEval /\ OneDataRun'
    \/ MakePredictionsUnsqueeze /\ OneDataRun'
    \/ MakePredictionsForward /\ OneDataRun'
    \/ MakePredictionsReturn /\ OneDataRun'
    \/ PredArgmax /\ OneDataRun'
    \/ PredPrint /\ OneDataRun'

SpecNb == InitPred /\ [][NextNb]_vars

(***************************************************************************)
(* A session that also re-executes the set-up cells of the model and of    *)
(* the optimizer                                                           *)
(***************************************************************************)
\* no cell is being executed
KernelFree == pc \in {"idle", "done", "aborted"} /\ ppc = "idle"

\* the cell of the model is executed:
\*     model_0 = FashionMNISTBaselineModel(input_shape=784, hidden_units=10,
\*                                         output_shape=len(class_names))
\* model_0 is bound to a new object: freshly initialised parameters without
\* gradients, on the CPU, in train mode; the optimizer keeps the parameters it
\* was given
RunModelCell ==
    /\ KernelFree
    /\ params' = 0
    /\ grad' = 0
    /\ model_dev' = "cpu"
    /\ mode' = "train"
    /\ optimizer_params' = "stale"
    /\ UNCHANGED <<pc, epoch, order, bi, X, y, X_dev, y_pred, test_pred,
                   train_loss, test_loss, test_acc, ops, processed, steps,
                   tested, n_correct, printed, exc, hist>>
    /\ UNCHANGED <<inp, rec>>
    /\ UNCHANGED <<predvars, confvars, fnvars, fwvars, ldvars>>

\* the cell of the loss and the optimizer is executed:
\*     loss_fn = nn.CrossEntropyLoss()
\*     optimizer = torch.optim.SGD(params=model_0.parameters(), lr=0.1)
RunOptimizerCell ==
    /\ KernelFree
    /\ optimizer_params' = "model_0"
    /\ UNCHANGED <<inp, rec>>
    /\ UNCHANGED <<cellvars, predvars, confvars, fnvars, fwvars, ldvars>>

NextKernel ==
    \/ RunTrainingCell /\ OneDataRun'
    \/ ModelToDevice /\ OneDataRun'
    \/ EpochBegin /\ OneDataRun'
    \/ EpochsDone /\ OneDataRun'
    \/ TrainFetch /\ OneDataRun'
    \/ BatchToDevice /\ OneDataRun'
    \/ ModelTrain /\ OneDataRun'
    \/ ForwardPass /\ OneDataRun'
    \/ CalculateLoss /\ OneDataRun'
    \/ OptimizerZeroGrad /\ OneDataRun'
    \/ LossBackward /\ OneDataRun'
    \/ OptimizerStep /\ OneDataRun'
    \/ TrainLoopEnd /\ OneDataRun'
    \/ TestFetch /\ OneDataRun'
    \/ TestBatchToDevice /\ OneDataRun'
    \/ TestForwardPass /\ OneDataRun'
    \/ TestCalculateLoss /\ OneDataRun'
    \/ TestCalculateAccuracy /\ OneDataRun'
    \/ TestLoopEnd /\ OneDataRun'
    \/ PrintMetrics /\ OneDataRun'
    \/ Fail /\ OneDataRun'
    \/ RerunTrainingCell /\ OneDataRun'
    \/ RunModelCell /\ OneDataRun'
    \/ RunOptimizerCell /\ OneDataRun'
    \/ RunPredictionCell /\ OneDataRun'
    \/ PredGetItem /\ OneDataRun'
    \/ PredArgsToDevice /\ OneDataRun'
    \/ MakePredictionsEval /\ OneDataRun'
    \/ MakePredictionsUnsqueeze /\ OneDataRun'
    \/ MakePredictionsForward /\ OneDataRun'
    \/ MakePredictionsReturn /\ OneDataRun'
    \/ PredArgmax /\ OneDataRun'
    \/ PredPrint /\ OneDataRun'

SpecKernel == InitPred /\ [][NextKernel]_vars

(***************************************************************************)
(* The two notebooks side by side on the CPU: the training cell of the     *)
(* showcase notebook is run to its end in one kernel, then that of         *)
(* part_000 in another kernel, on the same data                            *)
(***************************************************************************)
LoaderBatches ==
    IF DataLoaderLen(TrainN, BatchN) >= DataLoaderLen(TestN, BatchN)
    THEN DataLoaderLen(TrainN, BatchN) ELSE DataLoaderLen(TestN, BatchN)

\* the shuffles the two kernels are run on: the rotations of the stored order
RotatedOrders(n) ==
    {[i \in 1..n |-> ((i + r - 1) % n) + 1] : r \in 0..(n - 1)}

\* the data of a run: the order the shuffle gives, the loss of the k-th batch
\* of a loop, and how many samples of the k-th test batch the model gets
\* right; the same in every epoch
Inputs ==
    {in \in [order : RotatedOrders(TrainN),
             loss : [1..LoaderBatches -> 0..MaxLoss],
             hits : [1..DataLoaderLen(TestN, BatchN) -> 0..BatchN]] :
        \A k \in 1..DataLoaderLen(TestN, BatchN) :
            in.hits[k] <= SpanSize(BatchSpan(TestN, BatchN, k))}

\* both kernels get the data of inp
SameOrder == order' = inp.order
SameTrainLoss == train_loss' = RatAdd(train_loss, <<inp.loss[bi], 1>>)
SameTestLoss == test_loss' = RatAdd(test_loss, <<inp.loss[bi], 1>>)
SameHits == n_correct' = n_correct + inp.hits[bi]

\* what an epoch did to the model and what it printed
EpochRecord ==
    [log |-> hist.log, params |-> params, mode |-> mode, train_loss |-> train_loss,
     test_loss |-> test_loss, test_acc |-> test_acc]

Recorded == Len(rec[notebook]) = epoch + 1

\* the metrics line of the epoch is about to be printed: the epoch is noted
RecordEpoch ==
    /\ pc = "print"
    /\ Len(rec[notebook]) = epoch
    /\ rec' = [rec EXCEPT ![notebook] = Append(@, EpochRecord)]
    /\ UNCHANGED <<confvars, cellvars, predvars, optimizer_params, inp,
                   fnvars, fwvars, ldvars>>

\* the showcase notebook has finished: part_000 is opened in a fresh kernel
\* and run up to its training cell
OpenOtherNotebook ==
    /\ notebook = "showcase"
    /\ pc = "done"
    /\ notebook' = "part_000"
    /\ pc' = "idle"
    /\ epoch' = 0
    /\ order' = <<>>
    /\ bi' = 0
    /\ X' = <<>>
    /\ y' = <<>>
    /\ X_dev' = "cpu"
    /\ model_dev' = "cpu"
    /\ mode' = "train"
    /\ grad' = 0
    /\ y_pred' = NoTensor
    /\ test_pred' = NoTensor
    /\ train_loss' = Zero
    /\ test_loss' = Zero
    /\ test_acc' = Zero
    /\ ops' = <<>>
    /\ processed' = [i \in 1..TrainN |-> 0]
    /\ steps' = 0
    /\ tested' = 0
    /\ n_correct' = 0
    /\ printed' = [e \in 0..(epochs - 1) |-> 0]
    /\ exc' = "none"
    /\ params' = 0
    /\ hist' = NoHist
    /\ UNCHANGED <<device, predvars, sessvars, fnvars, fwvars, ldvars>>

InitPair ==
    /\ notebook = "showcase"
    /\ device = "cpu"
    /\ CellIdle
    /\ PredIdle
    /\ optimizer_params = "model_0"
    /\ inp \in Inputs
    /\ rec = NoRec
    /\ FnIdle
    /\ FwIdle
    /\ LdIdle

NextPair ==
    \/ RunTrainingCell
    \/ ModelToDevice
    \/ EpochBegin /\ SameOrder
    \/ EpochsDone
    \/ TrainFetch
    \/ BatchToDevice
    \/ ModelTrain
    \/ ForwardPass
    \/ CalculateLoss /\ SameTrainLoss
    \/ OptimizerZeroGrad
    \/ LossBackward
    \/ OptimizerStep
    \/ TrainLoopEnd
    \/ TestFetch
    \/ TestBatchToDevice
    \/ TestForwardPass
    \/ TestCalculateLoss /\ SameTestLoss
    \/ TestCalculateAccuracy /\ SameHits
    \/ TestLoopEnd
    \/ RecordEpoch
    \/ PrintMetrics /\ Recorded
    \/ OpenOtherNotebook

SpecPair == InitPair /\ [][NextPair]_vars

(***************************************************************************)
(* accuracy_fn on its own: every pair of label tensors within the bounds   *)
(***************************************************************************)
LabelTensors ==
    UNION {[1..n -> 0..MaxLabel] : n \in 0..MaxLen}

InitFn ==
    /\ notebook = "showcase"
    /\ device = "cpu"
    /\ CellIdle
    /\ PredIdle
    /\ SessIdle
    /\ fn_true \in LabelTensors
    /\ fn_pred \in LabelTensors
    /\ fn_out = NoResult
    /\ FwIdle
    /\ LdIdle

\* fn_out = accuracy_fn(y_true=fn_true, y_pred=fn_pred)
CallAccuracyFn ==
    /\ fn_out = NoResult
    /\ fn_out' = accuracy_fn(fn_true, fn_pred)
    /\ UNCHANGED <<fn_true, fn_pred>>
    /\ UNCHANGED <<confvars, cellvars, predvars, sessvars, fwvars, ldvars>>

NextFn == CallAccuracyFn

SpecFn == InitFn /\ [][NextFn]_vars

(***************************************************************************)
(* model_0 on its own: a batch of 1..BATCH_SIZE images, layer by layer     *)
(***************************************************************************)
InitFw ==
    /\ notebook = "showcase"
    /\ device = "cpu"
    /\ CellIdle
    /\ PredIdle
    /\ SessIdle
    /\ FnIdle
    /\ fw_n \in 1..BATCH_SIZE
    /\ fw_t = ImageBatch(fw_n)
    /\ fw_i = 0
    /\ LdIdle

\* nn.Sequential: the next layer of self.layer_stack is applied
ForwardLayer ==
    /\ fw_i < Len(model_0)
    /\ fw_t' = ApplyLayer(model_0[fw_i + 1], fw_t)
    /\ fw_i' = fw_i + 1
    /\ UNCHANGED fw_n
    /\ UNCHANGED <<confvars, cellvars, predvars, sessvars, fnvars, ldvars>>

NextFw == ForwardLayer

SpecFw == InitFw /\ [][NextFw]_vars

(***************************************************************************)
(* The data loaders at their real sizes: only the batches' positions       *)
(***************************************************************************)
InitLd ==
    /\ notebook = "showcase"
    /\ device = "cpu"
    /\ CellIdle
    /\ PredIdle
    /\ SessIdle
    /\ FnIdle
    /\ FwIdle
    /\ ld_name \in {"train_dataloader", "test_dataloader"}
    /\ ld_k = 0
    /\ ld_span = <<1, 0>>

\* for X, y in train_dataloader:  the next of its batches
TrainLoaderNext ==
    /\ ld_name = "train_dataloader"
    /\ ld_k < DataLoaderLen(TRAIN_SIZE, BATCH_SIZE)
    /\ ld_k' = ld_k + 1
    /\ ld_span' = BatchSpan(TRAIN_SIZE, BATCH_SIZE, ld_k + 1)
    /\ UNCHANGED ld_name
    /\ UNCHANGED <<confvars, cellvars, predvars, sessvars, fnvars, fwvars>>

\* for X, y in test_dataloader:  the next of its batches
TestLoaderNext ==
    /\ ld_name = "test_dataloader"
    /\ ld_k < DataLoaderLen(TEST_SIZE, BATCH_SIZE)
    /\ ld_k' = ld_k + 1
    /\ ld_span' = BatchSpan(TEST_SIZE, BATCH_SIZE, ld_k + 1)
    /\ UNCHANGED ld_name
    /\ UNCHANGED <<confvars, cellvars, predvars, sessvars, fnvars, fwvars>>

NextLd == TrainLoaderNext \/ TestLoaderNext

SpecLd == InitLd /\ [][NextLd]_vars

(***************************************************************************)
(* Properties                                                              *)
(***************************************************************************)
FnCalled == fn_out # NoResult

\* positions at which two label tensors of the same length agree
Matches(a, b) == Cardinality({i \in 1..Len(a) : a[i] = b[i]})

\* C1: accuracy_fn returns 100 for every pair of non-empty, equal-length
\* label sequences in which y_pred equals y_true at every position.
C1_AllRightIs100 ==
    (FnCalled /\ Len(fn_pred) > 0 /\ Len(fn_true) = Len(fn_pred)
              /\ \A i \in 1..Len(fn_pred) : fn_pred[i] = fn_true[i])
        => (fn_out.ok /\ fn_out.acc = <<100, 1>>)

C1_Witness ==
    /\ FnCalled
    /\ Len(fn_pred) = 3
    /\ fn_true = fn_pred
    /\ fn_out.acc = <<100, 1>>

\* C2: accuracy_fn returns 0 for every pair of non-empty, equal-length label
\* sequences in which y_pred differs from y_true at every position.
C2_AllWrongIs0 ==
    (FnCalled /\ Len(fn_pred) > 0 /\ Len(fn_true) = Len(fn_pred)
              /\ \A i \in 1..Len(fn_pred) : fn_pred[i] # fn_true[i])
        => (fn_out.ok /\ fn_out.acc = <<0, 1>>)

C2_Witness ==
    /\ FnCalled
    /\ Len(fn_pred) = 3
    /\ Len(fn_true) = 3
    /\ \A i \in 1..3 : fn_pred[i] # fn_true[i]
    /\ fn_out.acc = <<0, 1>>

\* C3: for every pair of non-empty, equal-length label sequences accuracy_fn
\* returns the percentage of matching positions,
\* 100 * (number of i with y_true[i] = y_pred[i]) / len(y_pred)
\* (as an exact number: acc = p/q with p * len = 100 * matches * q).
C3_PercentageOfMatches ==
    (FnCalled /\ Len(fn_pred) > 0 /\ Len(fn_true) = Len(fn_pred))
        => /\ fn_out.ok
           /\ fn_out.acc[2] > 0
           /\ fn_out.acc[1] * Len(fn_pred)
                = 100 * Matches(fn_true, fn_pred) * fn_out.acc[2]

C3_Witness ==
    /\ FnCalled
    /\ Len(fn_pred) = 3
    /\ Len(fn_true) = 3
    /\ Matches(fn_true, fn_pred) = 1
    /\ fn_out.acc = <<100, 3>>

\* the order of the five operations in the body of the training loop
StepOrder == <<"forward", "loss", "zero_grad", "backward", "step">>

IsPrefix(a, b) ==
    /\ Len(a) <= Len(b)
    /\ \A i \in 1..Len(a) : a[i] = b[i]

\* a training step has just run to its end
StepCompleted == pc = "train_head" /\ bi > 0

\* C4 as amended: in every training step the operations occur in the order
\* forward pass, loss computation, zero gradients, backward pass, optimizer
\* step.
C4_StepOrder ==
    /\ IsPrefix(ops, StepOrder)
    /\ StepCompleted => ops = StepOrder

C4_Witness ==
    /\ StepCompleted
    /\ epoch = 1
    /\ ops = <<"forward", "loss", "zero_grad", "backward", "step">>

\* C4 as stated: in every training step the operations occur in the order
\* zero gradients, forward pass, loss computation, backward pass, optimizer
\* step.
C4_AsStated ==
    StepCompleted
        => ops = <<"zero_grad", "forward", "loss", "backward", "step">>

\* an operation of the cell has raised
Raised == exc # "none"

\* C5: if an operation inside the training/evaluation cell fails, the cell
\* aborts at that point: the failed step is never retried, no later batch or
\* epoch is processed, and no metrics line is printed for the interrupted
\* epoch.
C5_FailureAborts ==
    /\ [](Raised => (pc = "aborted" /\ printed[epoch] = 0))
    /\ [][(~Raised /\ Raised')
            => UNCHANGED <<epoch, bi, ops, steps, processed, tested, printed>>]_vars
    /\ [][Raised => UNCHANGED cellvars]_vars

C5_Witness ==
    /\ Raised
    /\ pc = "aborted"
    /\ epoch = 1
    /\ bi = 2
    /\ steps = 1
    /\ ops = <<"forward", "loss", "zero_grad">>
    /\ printed = [e \in 0..(epochs - 1) |-> IF e = 0 THEN 1 ELSE 0]

\* the training loop of the current epoch is running
InTrainingLoop ==
    pc \in {"train_head", "to_device", "train_mode", "forward", "loss",
            "zero_grad", "backward", "step"}

\* the training loop of the current epoch has ended
AfterTrainingLoop ==
    pc \in {"test_head", "test_to_device", "test_forward", "test_loss",
            "test_acc", "print"}

\* the batches train_dataloader yields under the current shuffle order
TrainBatches ==
    [k \in 1..DataLoaderLen(TrainN, BatchN) |->
        Collate(order, BatchSpan(TrainN, BatchN, k))]

\* C6: in each epoch, for any shuffle order, every training sample belongs to
\* exactly one batch and that batch is processed by exactly one training
\* step, so an epoch is one full pass over the training dataset and performs
\* exactly len(train_dataloader) optimizer steps.
C6_OneFullPass ==
    /\ InTrainingLoop =>
         /\ \A i \in 1..TrainN :
              Cardinality({kj \in {<<k, j>> : k \in 1..Len(TrainBatches),
                                              j \in 1..BatchN} :
                             /\ kj[2] <= Len(TrainBatches[kj[1]])
                             /\ TrainBatches[kj[1]][kj[2]] = i}) = 1
         /\ steps <= bi
         /\ \A i \in 1..TrainN : processed[i] <= 1
    /\ AfterTrainingLoop =>
         /\ \A i \in 1..TrainN : processed[i] = 1
         /\ steps = DataLoaderLen(TrainN, BatchN)

C6_Witness ==
    /\ pc = "test_head"
    /\ bi = 0
    /\ epoch = 2
    /\ steps = 2
    /\ \A i \in 1..TrainN : processed[i] = 1

LoaderYielded == ld_k > 0

C8_TestAccIsPercentCorrect ==
    pc = "print" =>
        /\ tested = TestN
        /\ test_acc[1] * tested = 100 * n_correct * test_acc[2]

\* C9: in each epoch the metrics line is printed exactly once, only after
\* every training batch and every test batch of that epoch has been
\* processed, and before any training step of the next epoch.
C9_MetricsOncePerEpoch ==
    /\ \A e \in 0..(epochs - 1) : printed[e] = IF e < epoch THEN 1 ELSE 0
    /\ pc = "print" =>
         /\ steps = DataLoaderLen(TrainN, BatchN)
         /\ \A i \in 1..TrainN : processed[i] = 1
         /\ bi = DataLoaderLen(TestN, BatchN)
         /\ tested = TestN
    /\ pc = "done" => \A e \in 0..(epochs - 1) : printed[e] = 1

C9_Witness ==
    /\ pc = "done"
    /\ epoch = 3
    /\ \A e \in 0..2 : printed[e] = 1

\* C10: for every batch of N >= 1 images of shape 1x28x28 (including one
\* smaller than BATCH_SIZE) the forward pass is Flatten then two Linear
\* layers with no activation and returns N x 10 logits: 1*28*28 equals the
\* first layer's in_features (784), the first layer's out_features equals
\* the second layer's in_features, and no layer raises a shape mismatch.
C10_ForwardShapes ==
    /\ Len(model_0) = 3
    /\ model_0[1].type = "Flatten"
    /\ model_0[2].type = "Linear"
    /\ model_0[3].type = "Linear"
    /\ model_0[2].in_features = 784
    /\ 1 * 28 * 28 = model_0[2].in_features
    /\ model_0[2].out_features = model_0[3].in_features
    /\ fw_n >= 1 =>
         /\ fw_t.ok
         /\ fw_i = 1 => fw_t.shape = <<fw_n, 784>>
         /\ fw_i = 3 => fw_t.shape = <<fw_n, 10>>
         /\ forward(ImageBatch(fw_n)) = [ok |-> TRUE, shape |-> <<fw_n, 10>>]

C10_Witness ==
    /\ fw_n = 16
    /\ fw_i = 3
    /\ fw_t = [ok |-> TRUE, shape |-> <<16, 10>>]


(***************************************************************************)
(* The prediction cell                                                     *)
(***************************************************************************)
IndexDrawn == random_garment_idx # -1

\* C11: the random index drawn in the prediction cell is always a valid
\* index of the data set it is used on, 0 <= random_garment_idx < len(data
\* set), so that indexing the data set with it never raises.
C11_IndexInRange ==
    /\ IndexDrawn => (0 <= random_garment_idx /\ random_garment_idx < PredDataLen)
    /\ pexc # "IndexError"

\* the last execution of the training cell ran to its end
TrainingCellHasRun == pc = "done"

\* C12: for either value of device, when the prediction cell calls
\* make_predictions after the training cell has run, the parameters of the
\* model and the image tensor are on the same device at the forward pass
\* inside make_predictions; in both notebooks.
C12_PredictionOnOneDevice ==
    (TrainingCellHasRun /\ ppc = "mp_forward") => img_dev = model_dev

(***************************************************************************)
(* The training cell in a session                                          *)
(***************************************************************************)
AtLoopForwardOrLoss == pc \in {"forward", "loss", "test_forward", "test_loss"}

\* C13: for either value of device, at every forward pass and at every loss
\* computation of the training loop and of the testing loop, the parameters
\* of the model, the batch X and the labels y (X_dev holds both) are on the
\* same device, in both notebooks; no forward pass raises for a device
\* mismatch.
C13_LoopsOnOneDevice ==
    /\ AtLoopForwardOrLoss => X_dev = model_dev
    /\ exc # "RuntimeError"

C13_Witness ==
    /\ notebook = "showcase"
    /\ device = "cuda"
    /\ pc = "test_loss"
    /\ X_dev = "cuda"
    /\ model_dev = "cuda"
    /\ reruns = 1

\* C14: at every optimizer.step() the .grad fields hold the gradients of exactly
\* one backward pass, that of the current batch's loss (the step's own
\* forward, loss, zero_grad, backward precede it), and at every backward pass
\* the .grad fields are zero: they are zeroed between any two consecutive
\* backward passes, so no gradient of an earlier batch or epoch is left.
C14_GradientsOfCurrentBatch ==
    /\ pc = "backward" => grad = 0
    /\ pc = "step" => (grad = 1 /\ ops = <<"forward", "loss", "zero_grad", "backward">>)

C14_Witness ==
    /\ pc = "step"
    /\ epoch = 1
    /\ bi = 2
    /\ grad = 1
    /\ reruns = 1

InTestingLoop ==
    pc \in {"test_head", "test_to_device", "test_forward", "test_loss", "test_acc"}

InPredictionCell == ppc # "idle" \/ ppc' # "idle"

\* one step leaves the parameters alone unless it is optimizer.step(); a step
\* of the testing loop or of the prediction cell leaves the parameters and
\* the optimizer's gradients alone
ParamsFrame ==
    /\ (params' # params) => (pc = "step" /\ pc' = "train_head")
    /\ (InTestingLoop \/ InPredictionCell) => UNCHANGED <<params, grad>>

\* C15: the testing loop and make_predictions leave the parameters of the
\* model and the optimizer unchanged: the parameters change only in
\* optimizer.step() inside the training loop, so they are the same from the
\* last training step of an epoch to the first of the next, and across any
\* number of make_predictions calls.
C15_ParamsChangeOnlyInStep == [][ParamsFrame]_vars

C15_Witness ==
    /\ pc = "done"
    /\ ppc = "print"
    /\ params = epochs * DataLoaderLen(TrainN, BatchN)
    /\ pred_class = <<0>>

\* C16: for any sequence of executions of the training cell and of the
\* prediction cell, every forward pass of the training loop runs with the
\* model in train mode, and every forward pass of the testing loop and of
\* make_predictions runs with it in eval mode.
C16_ModeAtForward ==
    /\ pc = "forward" => mode = "train"
    /\ pc = "test_forward" => mode = "eval"
    /\ ppc = "mp_forward" => mode = "eval"

\* the training loop after a prediction has left the model in eval mode
C16_Witness ==
    /\ pc = "forward"
    /\ mode = "train"
    /\ pred_class = <<0>>
    /\ reruns = 1

(***************************************************************************)
(* The training cell, with its data                                        *)
(***************************************************************************)
\* C17: the train loss and the test loss printed for an epoch are the sum of
\* that epoch's per-batch losses divided by the number of batches that were
\* accumulated: both accumulators are 0 when their loop starts, in every
\* epoch, and the divisor len(dataloader) is the number of iterations the
\* loop made.
C17_LossesAreEpochAverages ==
    /\ (pc = "train_head" /\ bi = 0) => train_loss = Zero
    /\ (pc = "test_head" /\ bi = 0) => test_loss = Zero
    /\ pc = "print" =>
         /\ steps = DataLoaderLen(TrainN, BatchN)
         /\ hist.te_n = DataLoaderLen(TestN, BatchN)
         /\ steps > 0
         /\ hist.te_n > 0
         /\ train_loss = Rat(hist.tr_sum, steps)
         /\ test_loss = Rat(hist.te_sum, hist.te_n)

C17_Witness ==
    /\ pc = "print"
    /\ epoch = 2
    /\ hist.tr_sum = 1
    /\ train_loss = <<1, 2>>
    /\ hist.te_sum = 2
    /\ test_loss = <<1, 1>>

RatLeq(p, q) == p[1] * q[2] <= q[1] * p[2]

InPercentRange(p) == RatLeq(Zero, p) /\ RatLeq(p, <<100, 1>>)

\* the testing loop has called accuracy_fn in this epoch
AccuracyFnCalled == hist.acc # NoResult

\* C18: in every call of accuracy_fn made by the testing loop, y_true and
\* y_pred have the same length and it is not zero, so the call does not
\* divide by zero (nor raise for the shapes); every per-batch accuracy lies in
\* [0, 100], and so does the test accuracy reported for an epoch.
C18_AccuracyWellDefined ==
    /\ AccuracyFnCalled =>
         /\ hist.acc_true = hist.acc_pred
         /\ hist.acc_true > 0
         /\ hist.acc.ok
         /\ InPercentRange(hist.acc.acc)
    /\ exc # "ZeroDivisionError"
    /\ pc = "print" => InPercentRange(test_acc)

C18_Witness ==
    /\ pc = "print"
    /\ hist.acc_true = 1
    /\ hist.acc_pred = 1
    /\ hist.acc.acc = <<100, 1>>
    /\ test_acc = <<75, 1>>

\* the least m with m * B >= n
Ceil(n, B) == CHOOSE m \in 0..n : m * B >= n /\ \A k \in 0..(m - 1) : k * B < n

\* what the cell has done when it has ended
DoneCounts ==
    pc = "done" =>
        /\ epoch = epochs
        /\ \A e \in 0..(epochs - 1) : printed[e] = 1
        /\ hist.total_steps = epochs * Ceil(TrainN, BatchN)
        /\ hist.total_evals = epochs * Ceil(TestN, BatchN)
        /\ DataLoaderLen(TrainN, BatchN) = Ceil(TrainN, BatchN)
        /\ DataLoaderLen(TestN, BatchN) = Ceil(TestN, BatchN)

\* C19: absent a failure, the training cell terminates, after exactly
\* epochs = 3 epochs, having made exactly 3 * len(train_dataloader) optimizer
\* steps and 3 * len(test_dataloader) evaluation forward passes, where
\* len(dataloader) = ceil(len(dataset) / BATCH_SIZE).
C19_Terminates == <>(pc = "done") /\ []DoneCounts

C19_Witness ==
    /\ pc = "done"
    /\ epoch = 3
    /\ hist.total_steps = 6
    /\ hist.total_evals = 6
    /\ exc = "none"

(***************************************************************************)
(* The prediction cell: what make_predictions returns                      *)
(***************************************************************************)
\* make_predictions has returned and the cell is at one of its last two
\* statements
AfterMakePredictions == ppc \in {"argmax", "print"}

PredictionShapes ==
    /\ AfterMakePredictions =>
         /\ pred_probs.ok
         /\ pred_probs.shape = <<1, Cardinality(ClassIds)>>
    /\ ppc = "print" =>
         /\ Len(pred_class) = 1
         /\ pred_class[1] \in ClassIds

\* C20: make_predictions on a single image returns exactly one row of
\* len(class_names) scores, so pred_probs.argmax(dim=1) holds exactly one
\* index and that index is in 0 .. len(class_names) - 1; neither
\* pred_probs.argmax(dim=1) nor pred_class.item() nor
\* class_names[pred_class.item()] raises.
C20_OneRowOfClassScores ==
    /\ []PredictionShapes
    /\ [][AfterMakePredictions => pexc' = "none"]_vars

C20_Witness ==
    /\ ppc = "idle"
    /\ pexc = "none"
    /\ pred_probs.shape = <<1, 10>>
    /\ pred_class = <<9>>

(***************************************************************************)
(* The optimizer and the model                                             *)
(***************************************************************************)
\* C21: for any sequence of executions of the notebook's cells, whenever the
\* training cell runs, the parameters that optimizer.step() updates are the
\* parameters of the object currently bound to model_0, the model that makes
\* the forward passes.
C21_OptimizerUpdatesModel0 ==
    pc = "step" => optimizer_params = "model_0"

(***************************************************************************)
(* The two notebooks                                                       *)
(***************************************************************************)
\* C22: when device is "cpu", the two notebooks are equivalent on the
\* training cell: run side by side on the same batches, in every epoch they
\* perform the same sequence of model-affecting operations (train mode,
\* forward, loss, zero_grad, backward, step, eval mode, evaluation forward
\* passes) and reach the same parameters and the same reported metrics.
C22_NotebooksEquivalentOnCpu ==
    /\ \A e \in 1..Len(rec.part_000) :
         /\ e <= Len(rec.showcase)
         /\ rec.part_000[e] = rec.showcase[e]
    /\ (notebook = "part_000" /\ pc = "done") =>
         /\ Len(rec.showcase) = epochs
         /\ Len(rec.part_000) = epochs

C22_Witness ==
    /\ notebook = "part_000"
    /\ pc = "done"
    /\ Len(rec.part_000) = 3
    /\ rec.part_000[3].params = 6
    /\ rec.part_000[3].train_loss = <<1, 2>>
    /\ rec.part_000[3].test_acc = <<75, 1>>
    /\ Len(rec.part_000[3].log) = 15
    /\ rec.showcase = rec.part_000

====
